---- MODULE Spec2Model ----
(***************************************************************************)
(* gazcli, package internal/azure: the Session operations Subscriptions,   *)
(* RolesForSubscription, roleEligibilitySchedules and ActiveRoleAssignment *)
(* as one sequential state machine.  One behaviour is one process run: the *)
(* command dispatcher calls exactly one operation, which runs to its       *)
(* return.  The management API is the environment: it decides, at every    *)
(* page request and at the create call, how long the answer takes, whether *)
(* it is an error, how many entries a page holds and whether a next page   *)
(* exists.  The contents of a page are opaque until the range loop reads   *)
(* them, so each entry is drawn when the loop reaches it.  Time passes     *)
(* only while a request is in flight; local steps take no time.            *)
(***************************************************************************)
EXTENDS Integers, Sequences, FiniteSets, TLC

VARIABLES
    pc,         \* position in the running operation
    op,         \* the operation the dispatcher called
    args,       \* its arguments: subscriptionName, roleDisplayName, justifiction, duration
    now,        \* seconds since the process started
    nctx,       \* number of contexts made by context.WithTimeout so far
    ctx,        \* the context of the drain or call in progress
    more,       \* pager.More() of the pager in use
    remaining,  \* entries of nextResult.Value the range loop has not reached yet
    subs,       \* Subscriptions: the map being built
    subsSeen,   \* the entries the range loop of Subscriptions has reached, in order
    subsRes,    \* what Subscriptions returned: (map, error)
    r,          \* roleEligibilitySchedules: the map being built
    schedSeen,  \* the entries the range loop of roleEligibilitySchedules has reached
    schedRes,   \* what roleEligibilitySchedules returned: (map, error)
    subscriptionID, \* the identifier subscriptionName resolved to
    scope,      \* the scope roleEligibilitySchedules was called with
    req,        \* the RoleAssignmentScheduleRequest built by ActiveRoleAssignment
    calls,      \* every request sent to the management API, in order
    ret         \* what the operation returned to the dispatcher

vars == <<pc, op, args, now, nctx, ctx, more, remaining, subs, subsSeen, subsRes,
          r, schedSeen, schedRes, subscriptionID, scope, req, calls, ret>>

----------------------------------------------------------------------------
(* Bounds of the model *)

\* The most entries one drain reads over all its pages.
MaxEntries == 2

----------------------------------------------------------------------------
(* Values *)

\* A nil pointer, for the string-valued fields of the SDK's records.
NIL == "<nil>"
\* A nil error.
NoErr == "<no error>"

\* const defaultTimeout = 30 * time.Second, in seconds.
defaultTimeout == 30

\* How long the management API takes to answer one request, in seconds.
Latencies == {15, 30}

Names == {"Prod", "Dev"}
SubIds == {"sub-1", "sub-2"}
Enabled == "Enabled"
SubStates == {Enabled, "Disabled"}

\* *armsubscription.Subscription: a nil pointer, or a record of pointer fields.
NilSubscription ==
    [isnil |-> TRUE, DisplayName |-> NIL, SubscriptionID |-> NIL, State |-> NIL]
SubEntries ==
    {NilSubscription} \cup
    [isnil : {FALSE}, DisplayName : Names \cup {NIL},
     SubscriptionID : SubIds \cup {NIL}, State : SubStates \cup {NIL}]

RoleNames == {"Contributor", "Reader"}
SchedIds == {"sched-1", "sched-2"}
RoleDefIds == {"rd-1"}

\* *armauthorization.RoleEligibilitySchedule with the nested pointers
\* Properties, Properties.ExpandedProperties, ...RoleDefinition and
\* ...RoleDefinition.DisplayName.
NilRoleDefinition == [isnil |-> TRUE, DisplayName |-> NIL]
RoleDefinitions ==
    {NilRoleDefinition} \cup [isnil : {FALSE}, DisplayName : RoleNames \cup {NIL}]
NilExpanded == [isnil |-> TRUE, RoleDefinition |-> NilRoleDefinition]
ExpandedProps ==
    {NilExpanded} \cup [isnil : {FALSE}, RoleDefinition : RoleDefinitions]
NilProperties ==
    [isnil |-> TRUE, RoleDefinitionID |-> NIL, ExpandedProperties |-> NilExpanded]
NilSchedule == [isnil |-> TRUE, ID |-> NIL, Properties |-> NilProperties]
Schedule(id, rdid, ep) ==
    [isnil |-> FALSE, ID |-> id,
     Properties |-> [isnil |-> FALSE, RoleDefinitionID |-> rdid,
                     ExpandedProperties |-> ep]]
\* The identifier and the role-definition identifier of a record: both there,
\* or one of them missing.
IdPairs ==
    {<<"sched-1", "rd-1">>, <<"sched-2", "rd-1">>, <<NIL, "rd-1">>, <<"sched-1", NIL>>}
SchedEntries ==
    {NilSchedule} \cup
    {[isnil |-> FALSE, ID |-> id, Properties |-> NilProperties] :
        id \in SchedIds \cup {NIL}} \cup
    {Schedule(p[1], p[2], ep) : p \in IdPairs, ep \in ExpandedProps}

\* The error strings of the package.
ErrNil == "unexptected nil value returned"
ErrSubNotFound == "subscription not found"
ErrRoleNotFound == "Role Eligibility Schedule not found"
\* Errors that come from outside the package and are passed through.
ErrClient == "client construction failed"
ErrNetwork == "request failed"
ErrDeadline == "context deadline exceeded"
ErrUUID == "uuid generation failed"

\* An empty Go map, and the (map, error) pair a listing returns; a nil map is
\* told apart from an empty one.
EmptyMap == [k \in {} |-> NIL]
Result(m, isnil, err) == [map |-> m, nilmap |-> isnil, err |-> err]
NoResult == Result(EmptyMap, TRUE, NoErr)

\* A slip: return nil, err inside the loop.
NilResult(m, err) == [map |-> [k \in {} |-> "<nil>"], nilmap |-> TRUE, err |-> err]

\* return subs, err / return r, err inside the loop: the map built so far goes
\* back with the error.
PartialResult(m, err) == Result(m, FALSE, err)

\* A slip: the request made under s.ctx itself, which has no deadline.
WithoutTimeout(id, t) == [id |-> id, start |-> t, deadline |-> -1]

\* A context without a deadline (s.ctx), and context.WithTimeout(s.ctx, s.timeout)
\* made at time t as the id-th context of the run.
NoDeadline == -1
Background == [id |-> 0, start |-> 0, deadline |-> NoDeadline]
WithTimeout(id, t) == [id |-> id, start |-> t, deadline |-> t + defaultTimeout]

NoRequest == [built |-> FALSE]

\* The arguments the dispatcher passes.  The listings may or may not hold the
\* one name asked for, and hold other names beside it; durations are in seconds
\* (90 minutes, 1.5 minutes, 59 seconds, none, minus 1.5 minutes).
SubscriptionArgs == {"Prod"}
RoleArgs == {"Contributor"}
Durations == {5400, 90, 59, 0, -90}
Justification == "on-call"
PrincipalID == "principal-1"
Args(n, role, d) ==
    [subscriptionName |-> n, roleDisplayName |-> role,
     justifiction |-> Justification, duration |-> d]
NoArgs == Args(NIL, NIL, 0)

\* What an operation hands back to the dispatcher.
Return(err, listing, roles) ==
    [returned |-> TRUE, err |-> err, subs |-> listing, roles |-> roles]
NotReturned ==
    [returned |-> FALSE, err |-> NoErr, subs |-> NoResult, roles |-> {}]

\* One request on the wire: which API, at which scope, under which context,
\* sent at which time.
CallRec(api, sc, c, t) == [api |-> api, scope |-> sc, ctx |-> c, at |-> t]
ListSubscriptions == "Subscriptions.List"
ListForScope == "RoleEligibilitySchedules.ListForScope"
Create == "RoleAssignmentScheduleRequests.Create"

\* A context whose deadline has passed fails a request before it is sent; a
\* request still in flight at the deadline is cancelled at the deadline.
Expired(c, t) == c.deadline # NoDeadline /\ t >= c.deadline
TimesOut(c, t, lat) == c.deadline # NoDeadline /\ t + lat > c.deadline

----------------------------------------------------------------------------
(* Subscriptions *)

\* A slip: the state left out of the nil checks.
SubEntryMalformedNoState(v) ==
    v.isnil \/ v.DisplayName = NIL \/ v.SubscriptionID = NIL

\* if v == nil || v.DisplayName == nil || v.SubscriptionID == nil || v.State == nil
SubEntryMalformed(v) ==
    v.isnil \/ v.DisplayName = NIL \/ v.SubscriptionID = NIL \/ v.State = NIL

\* A slip: the comparison inverted, so that the enabled entries are skipped.
SubEntrySkippedInverted(v) == v.State = Enabled

\* if *v.State != armsubscription.SubscriptionStateEnabled { continue }
SubEntrySkipped(v) == v.State # Enabled

\* A slip: the assignment made whether or not the name is in the map, so that
\* the last entry of a name wins.
SubsInsertLastWins(m, v) ==
    [k \in DOMAIN m \cup {v.DisplayName} |->
        IF k = v.DisplayName THEN v.SubscriptionID ELSE m[k]]

\* if _, found := subs[name]; found { log warning } else { subs[name] = id }
SubsInsert(m, v) ==
    IF v.DisplayName \in DOMAIN m
    THEN m
    ELSE [k \in DOMAIN m \cup {v.DisplayName} |->
             IF k = v.DisplayName THEN v.SubscriptionID ELSE m[k]]

Init ==
    /\ pc = "idle"
    /\ op = "none"
    /\ args = NoArgs
    /\ now = 0
    /\ nctx = 0
    /\ ctx = Background
    /\ more = FALSE
    /\ remaining = 0
    /\ subs = EmptyMap
    /\ subsSeen = <<>>
    /\ subsRes = NoResult
    /\ r = EmptyMap
    /\ schedSeen = <<>>
    /\ schedRes = NoResult
    /\ subscriptionID = NIL
    /\ scope = NIL
    /\ req = NoRequest
    /\ calls = <<>>
    /\ ret = NotReturned

\* A return leaves nothing of the pagers, the maps under construction and the
\* listings' results behind.
DropFrames ==
    /\ more' = FALSE
    /\ remaining' = 0
    /\ subs' = EmptyMap
    /\ subsSeen' = <<>>
    /\ subsRes' = NoResult
    /\ r' = EmptyMap
    /\ schedSeen' = <<>>
    /\ schedRes' = NoResult

\* The operation returns to the dispatcher and the process ends.
ReturnToDispatcher(err, listing, roles) ==
    /\ ret' = Return(err, listing, roles)
    /\ pc' = "done"
    /\ DropFrames

\* The dispatcher runs the "subscriptions" command.
CallSubscriptions ==
    /\ pc = "idle"
    /\ op' = "Subscriptions"
    /\ pc' = "subs_begin"
    /\ UNCHANGED <<args, now, nctx, ctx, more, remaining, subs, subsSeen, subsRes,
                   r, schedSeen, schedRes, subscriptionID, scope, req, calls, ret>>

\* The dispatcher runs "roles <subscription>".
CallRolesForSubscription ==
    /\ pc = "idle"
    /\ \E n \in SubscriptionArgs : args' = Args(n, NIL, 0)
    /\ op' = "RolesForSubscription"
    /\ pc' = "subs_begin"
    /\ UNCHANGED <<now, nctx, ctx, more, remaining, subs, subsSeen, subsRes,
                   r, schedSeen, schedRes, subscriptionID, scope, req, calls, ret>>

\* The dispatcher runs "activate <subscription> <role> <justifiction> [duration]".
CallActiveRoleAssignment ==
    /\ pc = "idle"
    /\ \E n \in SubscriptionArgs, role \in RoleArgs, d \in Durations :
          args' = Args(n, role, d)
    /\ op' = "ActiveRoleAssignment"
    /\ pc' = "subs_begin"
    /\ UNCHANGED <<now, nctx, ctx, more, remaining, subs, subsSeen, subsRes,
                   r, schedSeen, schedRes, subscriptionID, scope, req, calls, ret>>

\* Subscriptions, up to the loop: the client, the pager, the context, the map.
\* A new pager reports More() until its first page has been fetched.
SubsBegin ==
    /\ pc = "subs_begin"
    /\ \/ /\ subsRes' = Result(EmptyMap, TRUE, ErrClient)
          /\ pc' = "subs_ret"
          /\ UNCHANGED <<nctx, ctx, more, remaining, subs>>
       \/ /\ nctx' = nctx + 1
          /\ ctx' = WithTimeout(nctx + 1, now)
          /\ subs' = EmptyMap
          /\ more' = TRUE
          /\ remaining' = 0
          /\ pc' = "subs_drain"
          /\ UNCHANGED subsRes
    /\ UNCHANGED <<op, args, now, subsSeen, r, schedSeen, schedRes, subscriptionID, scope, req,
                   calls, ret>>

\* for pager.More() { nextResult, err := pager.NextPage(ctx); if err != nil {
\* return subs, err } ... }: one page request of the subscriptions listing.
SubsNextPage ==
    /\ pc = "subs_drain"
    /\ remaining = 0
    /\ more
    /\ \/ /\ Expired(ctx, now)
          /\ subsRes' = PartialResult(subs, ErrDeadline)
          /\ pc' = "subs_ret"
          /\ UNCHANGED <<now, more, remaining, calls>>
       \/ /\ ~Expired(ctx, now)
          /\ calls' = Append(calls, CallRec(ListSubscriptions, NIL, ctx, now))
          /\ \E lat \in Latencies :
                \/ /\ TimesOut(ctx, now, lat)
                   /\ now' = ctx.deadline
                   /\ subsRes' = PartialResult(subs, ErrDeadline)
                   /\ pc' = "subs_ret"
                   /\ UNCHANGED <<more, remaining>>
                \/ /\ ~TimesOut(ctx, now, lat)
                   /\ now' = now + lat
                   /\ subsRes' = PartialResult(subs, ErrNetwork)
                   /\ pc' = "subs_ret"
                   /\ UNCHANGED <<more, remaining>>
                \/ /\ ~TimesOut(ctx, now, lat)
                   /\ now' = now + lat
                   /\ \E n \in 0..(MaxEntries - Len(subsSeen)) : remaining' = n
                   /\ \E m \in BOOLEAN : more' = m
                   /\ UNCHANGED <<pc, subsRes>>
    /\ UNCHANGED <<op, args, nctx, ctx, subs, subsSeen, r, schedSeen, schedRes,
                   subscriptionID, scope, req, ret>>

\* for _, v := range nextResult.Value { ... }: one entry of the page.
SubsEntry ==
    /\ pc = "subs_drain"
    /\ remaining > 0
    /\ \E v \in SubEntries :
          /\ subsSeen' = Append(subsSeen, v)
          /\ remaining' = remaining - 1
          /\ IF SubEntryMalformed(v)
             THEN /\ subsRes' = PartialResult(subs, ErrNil)
                  /\ pc' = "subs_ret"
                  /\ UNCHANGED subs
             ELSE /\ subs' = IF SubEntrySkipped(v) THEN subs ELSE SubsInsert(subs, v)
                  /\ UNCHANGED <<pc, subsRes>>
    /\ UNCHANGED <<op, args, now, nctx, ctx, more, r, schedSeen, schedRes, subscriptionID, scope,
                   req, calls, ret>>

\* pager.More() is false: return subs, nil.
SubsDrained ==
    /\ pc = "subs_drain"
    /\ remaining = 0
    /\ ~more
    /\ subsRes' = Result(subs, FALSE, NoErr)
    /\ pc' = "subs_ret"
    /\ UNCHANGED <<op, args, now, nctx, ctx, more, remaining, subs, subsSeen,
                   r, schedSeen, schedRes, subscriptionID, scope, req, calls, ret>>

\* The "subscriptions" command gets (subs, err) back.
SubscriptionsReturn ==
    /\ pc = "subs_ret"
    /\ op = "Subscriptions"
    /\ ReturnToDispatcher(subsRes.err, subsRes, {})
    /\ UNCHANGED <<op, args, now, nctx, ctx, subscriptionID, scope, req, calls>>

----------------------------------------------------------------------------
(* roleEligibilitySchedules *)

\* if v == nil || v.Properties == nil || v.Properties.ExpandedProperties == nil ||
\*    ...RoleDefinition == nil || ...RoleDefinition.DisplayName == nil
SchedEntryMalformed(v) ==
    \/ v.isnil
    \/ v.Properties.isnil
    \/ v.Properties.ExpandedProperties.isnil
    \/ v.Properties.ExpandedProperties.RoleDefinition.isnil
    \/ v.Properties.ExpandedProperties.RoleDefinition.DisplayName = NIL

\* *v.Properties.ExpandedProperties.RoleDefinition.DisplayName
RoleDisplayName(v) == v.Properties.ExpandedProperties.RoleDefinition.DisplayName

\* if _, found := r[name]; found { log warning } else { r[name] = v }
SchedInsert(m, v) ==
    IF RoleDisplayName(v) \in DOMAIN m
    THEN m
    ELSE [k \in DOMAIN m \cup {RoleDisplayName(v)} |->
             IF k = RoleDisplayName(v) THEN v ELSE m[k]]

\* roleEligibilitySchedules, up to the loop: the client, the pager for the
\* scope, the context, the map.
SchedBegin ==
    /\ pc = "sched_begin"
    /\ \/ /\ schedRes' = Result(EmptyMap, TRUE, ErrClient)
          /\ pc' = "sched_ret"
          /\ UNCHANGED <<nctx, ctx, more, remaining, r>>
       \/ /\ nctx' = nctx + 1
          /\ ctx' = WithTimeout(nctx + 1, now)
          /\ r' = EmptyMap
          /\ more' = TRUE
          /\ remaining' = 0
          /\ pc' = "sched_drain"
          /\ UNCHANGED schedRes
    /\ UNCHANGED <<op, args, now, subs, subsSeen, subsRes, schedSeen,
                   subscriptionID, scope, req, calls, ret>>

\* for pager.More() { nextResult, err := pager.NextPage(ctx); if err != nil {
\* return r, err } ... }: one page request of the schedules listing.
SchedNextPage ==
    /\ pc = "sched_drain"
    /\ remaining = 0
    /\ more
    /\ \/ /\ Expired(ctx, now)
          /\ schedRes' = PartialResult(r, ErrDeadline)
          /\ pc' = "sched_ret"
          /\ UNCHANGED <<now, more, remaining, calls>>
       \/ /\ ~Expired(ctx, now)
          /\ calls' = Append(calls, CallRec(ListForScope, scope, ctx, now))
          /\ \E lat \in Latencies :
                \/ /\ TimesOut(ctx, now, lat)
                   /\ now' = ctx.deadline
                   /\ schedRes' = PartialResult(r, ErrDeadline)
                   /\ pc' = "sched_ret"
                   /\ UNCHANGED <<more, remaining>>
                \/ /\ ~TimesOut(ctx, now, lat)
                   /\ now' = now + lat
                   /\ schedRes' = PartialResult(r, ErrNetwork)
                   /\ pc' = "sched_ret"
                   /\ UNCHANGED <<more, remaining>>
                \/ /\ ~TimesOut(ctx, now, lat)
                   /\ now' = now + lat
                   /\ \E n \in 0..(MaxEntries - Len(schedSeen)) : remaining' = n
                   /\ \E m \in BOOLEAN : more' = m
                   /\ UNCHANGED <<pc, schedRes>>
    /\ UNCHANGED <<op, args, nctx, ctx, subs, subsSeen, subsRes, r, schedSeen,
                   subscriptionID, scope, req, ret>>

\* for _, v := range nextResult.Value { ... }: one entry of the page.
SchedEntry ==
    /\ pc = "sched_drain"
    /\ remaining > 0
    /\ \E v \in SchedEntries :
          /\ schedSeen' = Append(schedSeen, v)
          /\ remaining' = remaining - 1
          /\ IF SchedEntryMalformed(v)
             THEN /\ schedRes' = PartialResult(r, ErrNil)
                  /\ pc' = "sched_ret"
                  /\ UNCHANGED r
             ELSE /\ r' = SchedInsert(r, v)
                  /\ UNCHANGED <<pc, schedRes>>
    /\ UNCHANGED <<op, args, now, nctx, ctx, more, subs, subsSeen, subsRes, subscriptionID, scope,
                   req, calls, ret>>

\* pager.More() is false: return r, nil.
SchedDrained ==
    /\ pc = "sched_drain"
    /\ remaining = 0
    /\ ~more
    /\ schedRes' = Result(r, FALSE, NoErr)
    /\ pc' = "sched_ret"
    /\ UNCHANGED <<op, args, now, nctx, ctx, more, remaining, subs, subsSeen,
                   subsRes, r, schedSeen, subscriptionID, scope, req, calls, ret>>

----------------------------------------------------------------------------
(* RolesForSubscription *)

\* fmt.Sprintf("/subscriptions/%s", sub)
RolesScope(sub) == "/subscriptions/" \o sub

\* A slip: found ignored.
SubFoundAlways(m, k) == TRUE

\* sub, found := subs[subscriptionName]: found, and the value, which is the
\* zero value of the type for a missing key.
SubFound(m, k) == k \in DOMAIN m
SubValue(m, k) == IF k \in DOMAIN m THEN m[k] ELSE ""

\* subs, err := s.Subscriptions() has returned: the error check, the lookup of
\* subscriptionName, and the call of roleEligibilitySchedules.
RolesAfterSubscriptions ==
    /\ pc = "subs_ret"
    /\ op = "RolesForSubscription"
    /\ IF subsRes.err # NoErr
       THEN /\ ReturnToDispatcher(subsRes.err, NoResult, {})
            /\ UNCHANGED <<subscriptionID, scope>>
       ELSE IF ~SubFound(subsRes.map, args.subscriptionName)
       THEN /\ ReturnToDispatcher(ErrSubNotFound, NoResult, {})
            /\ UNCHANGED <<subscriptionID, scope>>
       ELSE /\ subscriptionID' = SubValue(subsRes.map, args.subscriptionName)
            /\ scope' = RolesScope(subscriptionID')
            /\ pc' = "sched_begin"
            /\ DropFrames
            /\ UNCHANGED ret
    /\ UNCHANGED <<op, args, now, nctx, ctx, req, calls>>

\* res, err := s.roleEligibilitySchedules(...) has returned: the error check
\* and the role names, the keys of res (in no particular order).
RolesAfterSchedules ==
    /\ pc = "sched_ret"
    /\ op = "RolesForSubscription"
    /\ IF schedRes.err # NoErr
       THEN ReturnToDispatcher(schedRes.err, NoResult, {})
       ELSE ReturnToDispatcher(NoErr, NoResult, DOMAIN schedRes.map)
    /\ UNCHANGED <<op, args, now, nctx, ctx, subscriptionID, scope, req, calls>>

----------------------------------------------------------------------------
(* ActiveRoleAssignment *)

\* A slip, or a tidying up: the listing scope written like the other two.
ActiveListScopeSlash(id) == "/subscriptions/" \o id

\* fmt.Sprintf("subscriptions/%s", subscriptionID)
ActiveListScope(id) == "subscriptions/" \o id

\* scope := fmt.Sprintf("/subscriptions/%s", subscriptionID)
ActiveCreateScope(id) == "/subscriptions/" \o id

\* A slip: the minutes rounded to the nearest instead of truncated.
MinutesRounded(d) == IF d >= 0 THEN (d + 30) \div 60 ELSE -((30 - d) \div 60)

\* int(duration.Minutes()): the minutes of a duration given in seconds, as a
\* float64 converted to int, which drops the fraction (towards zero).
Minutes(d) == IF d >= 0 THEN d \div 60 ELSE -((-d) \div 60)

\* expirationDuration := fmt.Sprintf("PT%dM", int(duration.Minutes()))
ExpirationDuration(d) == "PT" \o ToString(Minutes(d)) \o "M"

\* A slip: re.ID left out of the nil checks.
ScheduleIncompleteNoID(re) ==
    \/ re.isnil
    \/ re.Properties.isnil
    \/ re.Properties.ExpandedProperties.isnil
    \/ re.Properties.ExpandedProperties.RoleDefinition.isnil
    \/ re.Properties.RoleDefinitionID = NIL

\* if re == nil || re.ID == nil || re.Properties == nil || ...ExpandedProperties
\* == nil || ...RoleDefinition == nil || re.Properties.RoleDefinitionID == nil
ScheduleIncomplete(re) ==
    \/ re.isnil
    \/ re.ID = NIL
    \/ re.Properties.isnil
    \/ re.Properties.ExpandedProperties.isnil
    \/ re.Properties.ExpandedProperties.RoleDefinition.isnil
    \/ re.Properties.RoleDefinitionID = NIL

\* A slip: found ignored.
RoleFoundAlways(m, k) == TRUE

\* re, found := res[roleDisplayName]: found, and the value, a nil pointer for a
\* missing key.
RoleFound(m, k) == k \in DOMAIN m
RoleValue(m, k) == IF k \in DOMAIN m THEN m[k] ELSE NilSchedule

\* req := armauthorization.RoleAssignmentScheduleRequest{...}
BuildRequest(re, justifiction, d, t) ==
    [built |-> TRUE,
     PrincipalID |-> PrincipalID,
     RequestType |-> "SelfActivate",
     RoleDefinitionID |-> re.Properties.RoleDefinitionID,
     Justification |-> justifiction,
     StartDateTime |-> t,
     ExpirationType |-> "AfterDuration",
     ExpirationDuration |-> ExpirationDuration(d),
     LinkedRoleEligibilityScheduleID |-> re.ID]

\* subs, err := s.Subscriptions() has returned: the error check, the lookup of
\* subscriptionName, and the call of roleEligibilitySchedules.
ActiveAfterSubscriptions ==
    /\ pc = "subs_ret"
    /\ op = "ActiveRoleAssignment"
    /\ IF subsRes.err # NoErr
       THEN /\ ReturnToDispatcher(subsRes.err, NoResult, {})
            /\ UNCHANGED <<subscriptionID, scope>>
       ELSE IF ~SubFound(subsRes.map, args.subscriptionName)
       THEN /\ ReturnToDispatcher(ErrSubNotFound, NoResult, {})
            /\ UNCHANGED <<subscriptionID, scope>>
       ELSE /\ subscriptionID' = SubValue(subsRes.map, args.subscriptionName)
            /\ scope' = ActiveListScope(subscriptionID')
            /\ pc' = "sched_begin"
            /\ DropFrames
            /\ UNCHANGED ret
    /\ UNCHANGED <<op, args, now, nctx, ctx, req, calls>>

\* res, err := s.roleEligibilitySchedules(...) has returned: the error check,
\* the lookup of roleDisplayName, the nil checks and the request.
ActiveAfterSchedules ==
    /\ pc = "sched_ret"
    /\ op = "ActiveRoleAssignment"
    /\ IF schedRes.err # NoErr
       THEN /\ ReturnToDispatcher(schedRes.err, NoResult, {})
            /\ UNCHANGED req
       ELSE IF ~RoleFound(schedRes.map, args.roleDisplayName)
       THEN /\ ReturnToDispatcher(ErrRoleNotFound, NoResult, {})
            /\ UNCHANGED req
       ELSE IF ScheduleIncomplete(RoleValue(schedRes.map, args.roleDisplayName))
       THEN /\ ReturnToDispatcher(ErrNil, NoResult, {})
            /\ UNCHANGED req
       ELSE /\ req' = BuildRequest(RoleValue(schedRes.map, args.roleDisplayName),
                                   args.justifiction, args.duration, now)
            /\ pc' = "create"
            /\ DropFrames
            /\ UNCHANGED ret
    /\ UNCHANGED <<op, args, now, nctx, ctx, subscriptionID, scope, calls>>

\* From scope := ... to the end: the request id, the client, a context of its
\* own and the create call, whose error, if any, is returned.
ActiveCreate ==
    /\ pc = "create"
    /\ \/ /\ \E e \in {ErrUUID, ErrClient} : ReturnToDispatcher(e, NoResult, {})
          /\ UNCHANGED <<now, nctx, ctx, calls>>
       \/ /\ nctx' = nctx + 1
          /\ ctx' = WithTimeout(nctx + 1, now)
          /\ calls' = Append(calls,
                CallRec(Create, ActiveCreateScope(subscriptionID),
                        ctx', now))
          /\ \E lat \in Latencies :
                \/ /\ TimesOut(ctx', now, lat)
                   /\ now' = ctx'.deadline
                   /\ ReturnToDispatcher(ErrDeadline, NoResult, {})
                \/ /\ ~TimesOut(ctx', now, lat)
                   /\ now' = now + lat
                   /\ \E e \in {ErrNetwork, NoErr} : ReturnToDispatcher(e, NoResult, {})
    /\ UNCHANGED <<op, args, subscriptionID, scope, req>>

----------------------------------------------------------------------------

Next ==
    \/ CallSubscriptions
    \/ CallRolesForSubscription
    \/ CallActiveRoleAssignment
    \/ SubsBegin
    \/ SubsNextPage
    \/ SubsEntry
    \/ SubsDrained
    \/ SubscriptionsReturn
    \/ SchedBegin
    \/ SchedNextPage
    \/ SchedEntry
    \/ SchedDrained
    \/ RolesAfterSubscriptions
    \/ RolesAfterSchedules
    \/ ActiveAfterSubscriptions
    \/ ActiveAfterSchedules
    \/ ActiveCreate

Spec == Init /\ [][Next]_vars

\* The operations are straight-line code run by one goroutine: a step that can
\* be taken is taken.
FairSpec == Spec /\ WF_vars(Next)
----------------------------------------------------------------------------
(* Properties *)

\* The requests in the log that went to one API.
CallsTo(api) == {i \in 1..Len(calls) : calls[i].api = api}

\* An entry of the subscriptions listing that has all three fields, and one
\* that is kept: complete and in the enabled state.
SubComplete(e) ==
    ~e.isnil /\ e.DisplayName \in Names /\ e.SubscriptionID \in SubIds
             /\ e.State \in SubStates
SubRetained(e) == SubComplete(e) /\ e.State = "Enabled"
RetainedSubIndexes(seen) == {i \in 1..Len(seen) : SubRetained(seen[i])}

\* The mapping that keeps, for every display name among the retained entries,
\* the identifier of the entry with the least index.
FirstWinsSubs(seen) ==
    [n \in {seen[i].DisplayName : i \in RetainedSubIndexes(seen)} |->
        seen[CHOOSE i \in RetainedSubIndexes(seen) :
                /\ seen[i].DisplayName = n
                /\ \A j \in RetainedSubIndexes(seen) :
                      seen[j].DisplayName = n => i <= j].SubscriptionID]

\* The same for the schedules listing, which retains every entry whose role
\* definition display name can be reached, and keeps the whole record.
SchedRetained(e) ==
    /\ ~e.isnil
    /\ ~e.Properties.isnil
    /\ ~e.Properties.ExpandedProperties.isnil
    /\ ~e.Properties.ExpandedProperties.RoleDefinition.isnil
    /\ e.Properties.ExpandedProperties.RoleDefinition.DisplayName \in RoleNames
SchedName(e) == e.Properties.ExpandedProperties.RoleDefinition.DisplayName
RetainedSchedIndexes(seen) == {i \in 1..Len(seen) : SchedRetained(seen[i])}
FirstWinsScheds(seen) ==
    [n \in {SchedName(seen[i]) : i \in RetainedSchedIndexes(seen)} |->
        seen[CHOOSE i \in RetainedSchedIndexes(seen) :
                /\ SchedName(seen[i]) = n
                /\ \A j \in RetainedSchedIndexes(seen) :
                      SchedName(seen[j]) = n => i <= j]]

\* C1: both paged listings keep the first entry per display name.  At every
\* point of a drain the map under construction is the first-wins mapping of the
\* retained entries read so far (so an entry once mapped is never overwritten by
\* a later entry of the same or a later page), and a listing that drains
\* without error returns that mapping.
C1_FirstOccurrenceWins ==
    /\ subs = FirstWinsSubs(subsSeen)
    /\ r = FirstWinsScheds(schedSeen)
    /\ (pc = "subs_ret" /\ subsRes.err = NoErr)
          => (~subsRes.nilmap /\ subsRes.map = FirstWinsSubs(subsSeen))
    /\ (pc = "sched_ret" /\ schedRes.err = NoErr)
          => (~schedRes.nilmap /\ schedRes.map = FirstWinsScheds(schedSeen))

\* C1 witness: Subscriptions has drained two pages without error, the second
\* holding a second enabled "Prod" with another identifier, and returns
\* {"Prod": "sub-1"}.
C1_Witness ==
    /\ pc = "subs_ret"
    /\ subsRes.err = NoErr
    /\ Cardinality(CallsTo(ListSubscriptions)) = 2
    /\ Len(subsSeen) = 2
    /\ subsSeen[1] = [isnil |-> FALSE, DisplayName |-> "Prod",
                      SubscriptionID |-> "sub-1", State |-> "Enabled"]
    /\ subsSeen[2] = [isnil |-> FALSE, DisplayName |-> "Prod",
                      SubscriptionID |-> "sub-2", State |-> "Enabled"]
    /\ DOMAIN subsRes.map = {"Prod"}
    /\ subsRes.map["Prod"] = "sub-1"

\* The display names, and the (name, identifier) pairs, of the entries read so
\* far that are in the enabled state.
EnabledSeen ==
    {i \in 1..Len(subsSeen) :
        ~subsSeen[i].isnil /\ subsSeen[i].State = "Enabled"}
OnlyEnabled(m) ==
    \A n \in DOMAIN m :
        \E i \in EnabledSeen :
            subsSeen[i].DisplayName = n /\ subsSeen[i].SubscriptionID = m[n]

\* C2: Subscriptions keeps no entry that is not enabled.  The map under
\* construction, at every point of the drain, and the map returned, with or
\* without an error, hold only keys and values taken from enabled entries read.
C2_OnlyEnabledSubscriptions ==
    /\ OnlyEnabled(subs)
    /\ pc = "subs_ret" => OnlyEnabled(subsRes.map)

\* C2 witness: the listing returned after reading a disabled "Dev" and an
\* enabled "Prod"; only "Prod" is in the result.
C2_Witness ==
    /\ pc = "subs_ret"
    /\ Len(subsSeen) = 2
    /\ subsSeen[1] = [isnil |-> FALSE, DisplayName |-> "Dev",
                      SubscriptionID |-> "sub-2", State |-> "Disabled"]
    /\ subsSeen[2].State = "Enabled"
    /\ subsSeen[2].DisplayName = "Prod"
    /\ DOMAIN subsRes.map = {"Prod"}

\* C3: an entry of the subscriptions listing that lacks its display name, its
\* identifier or its state, whatever its state is, fails Subscriptions
\* with the nil-value error: it is the last entry read, and the drain is over
\* (the position is the return, where no entry is read and no page is
\* requested) with that error and a map that is not nil.
C3_MalformedEntryFails ==
    \A i \in 1..Len(subsSeen) :
        ~SubComplete(subsSeen[i]) =>
            /\ i = Len(subsSeen)
            /\ pc = "subs_ret"
            /\ subsRes.err = ErrNil
            /\ ~subsRes.nilmap

\* C3 witness: a disabled entry without display name ended the drain while the
\* page had entries left and the pager had more pages.
C3_Witness ==
    /\ pc = "subs_ret"
    /\ Len(subsSeen) >= 1
    /\ subsSeen[Len(subsSeen)] = [isnil |-> FALSE, DisplayName |-> NIL,
                                  SubscriptionID |-> "sub-1", State |-> "Disabled"]
    /\ remaining > 0
    /\ more
    /\ subsRes.err = ErrNil

\* The step of RolesForSubscription that finds the name missing, and the state
\* it ends in.
C4_RolesNotFoundStep ==
    /\ (pc = "subs_ret" /\ op = "RolesForSubscription" /\ subsRes.err = NoErr
          /\ args.subscriptionName \notin DOMAIN subsRes.map)
       => (pc' = "done" /\ ret'.returned /\ ret'.err = ErrSubNotFound
           /\ calls' = calls)
    /\ (op = "RolesForSubscription" /\ pc' = "done" /\ ret'.err = ErrSubNotFound)
       => (pc = "subs_ret" /\ args.subscriptionName \notin DOMAIN subsRes.map)
C4_RolesNotFoundDone ==
    (pc = "done" /\ op = "RolesForSubscription" /\ ret.err = ErrSubNotFound)
    => /\ CallsTo(ListForScope) = {}
       /\ CallsTo(ListSubscriptions) = 1..Len(calls)
       /\ Len(calls) >= 1

\* C4: RolesForSubscription with a name that is no key of the map Subscriptions
\* returned fails with "subscription not found" in that very step, without a
\* request, and an invocation that ended this way has sent nothing but
\* subscriptions listing requests.
C4_RolesSubscriptionNotFound ==
    [][C4_RolesNotFoundStep]_vars /\ []C4_RolesNotFoundDone

\* C4 witness: RolesForSubscription("Prod") has returned "subscription not
\* found" after a subscriptions listing of two pages.
C4_Witness ==
    /\ pc = "done"
    /\ op = "RolesForSubscription"
    /\ args.subscriptionName = "Prod"
    /\ ret.err = ErrSubNotFound
    /\ Len(calls) = 2

\* The steps of ActiveRoleAssignment that find a name missing, and the states
\* they end in.
C5_ActiveNotFoundStep ==
    /\ (pc = "subs_ret" /\ op = "ActiveRoleAssignment" /\ subsRes.err = NoErr
          /\ args.subscriptionName \notin DOMAIN subsRes.map)
       => (pc' = "done" /\ ret'.err = ErrSubNotFound /\ calls' = calls)
    /\ (pc = "sched_ret" /\ op = "ActiveRoleAssignment" /\ schedRes.err = NoErr
          /\ args.roleDisplayName \notin DOMAIN schedRes.map)
       => (pc' = "done" /\ ret'.err = ErrRoleNotFound /\ calls' = calls)
    /\ (op = "ActiveRoleAssignment" /\ pc' = "done" /\ ret'.err = ErrSubNotFound)
       => (pc = "subs_ret" /\ subsRes.err = NoErr
           /\ args.subscriptionName \notin DOMAIN subsRes.map)
    /\ (op = "ActiveRoleAssignment" /\ pc' = "done" /\ ret'.err = ErrRoleNotFound)
       => (pc = "sched_ret" /\ schedRes.err = NoErr /\ ~schedRes.nilmap
           /\ args.roleDisplayName \notin DOMAIN schedRes.map)
C5_ActiveNotFoundDone ==
    /\ (pc = "done" /\ op = "ActiveRoleAssignment" /\ ret.err = ErrSubNotFound)
       => /\ CallsTo(ListSubscriptions) = 1..Len(calls)
          /\ subscriptionID = NIL
    /\ (pc = "done" /\ op = "ActiveRoleAssignment" /\ ret.err = ErrRoleNotFound)
       => /\ subscriptionID \in SubIds
          /\ CallsTo(ListSubscriptions) # {}
          /\ CallsTo(ListForScope) # {}
          /\ \A i \in CallsTo(ListSubscriptions), j \in CallsTo(ListForScope) : i < j
          /\ CallsTo(Create) = {}

\* C5: ActiveRoleAssignment resolves the subscription first.  A name that does
\* not resolve fails with "subscription not found" in the step after the
\* subscriptions listing, before any schedules request.  A role that does not
\* resolve fails with the role-not-found error in the step after the schedules
\* listing returned without error: by then the subscription is resolved, both
\* listings have been requested, the subscriptions requests all before the
\* schedules requests, and there is no create request.
C5_ResolutionOrder ==
    [][C5_ActiveNotFoundStep]_vars /\ []C5_ActiveNotFoundDone

\* C5 witness: "Prod" resolved to sub-2, the schedules listing took two pages
\* at "subscriptions/sub-2", and ActiveRoleAssignment("Prod", "Contributor",
\* ...) has failed with the role-not-found error.
C5_Witness ==
    /\ pc = "done"
    /\ op = "ActiveRoleAssignment"
    /\ ret.err = ErrRoleNotFound
    /\ subscriptionID = "sub-2"
    /\ Cardinality(CallsTo(ListForScope)) = 2

\* What a create request in the log implies, and what each step of
\* ActiveRoleAssignment after a listing or at the create call does.
C6_CreateDone ==
    op = "ActiveRoleAssignment" =>
        /\ Cardinality(CallsTo(Create)) <= 1
        /\ \A i \in CallsTo(Create) :
              /\ i = Len(calls)
              /\ pc = "done"
              /\ subscriptionID \in SubIds
              /\ req.built
              /\ req.LinkedRoleEligibilityScheduleID \in SchedIds
              /\ req.RoleDefinitionID \in RoleDefIds
        /\ (pc = "done" /\ ret.err = NoErr) => Cardinality(CallsTo(Create)) = 1
C6_CreateStep ==
    op = "ActiveRoleAssignment" =>
        /\ (pc = "subs_ret" /\ subsRes.err # NoErr)
              => (pc' = "done" /\ ret'.err = subsRes.err /\ calls' = calls)
        /\ (pc = "sched_ret" /\ schedRes.err # NoErr)
              => (pc' = "done" /\ ret'.err = schedRes.err /\ calls' = calls)
        /\ (pc = "sched_ret" /\ schedRes.err = NoErr
              /\ args.roleDisplayName \in DOMAIN schedRes.map
              /\ (schedRes.map[args.roleDisplayName].ID = NIL
                  \/ schedRes.map[args.roleDisplayName].Properties.RoleDefinitionID = NIL))
              => (pc' = "done" /\ ret'.err = ErrNil /\ calls' = calls)
        /\ pc' = "create"
              => /\ pc = "sched_ret" /\ schedRes.err = NoErr
                 /\ args.roleDisplayName \in DOMAIN schedRes.map
                 /\ req'.LinkedRoleEligibilityScheduleID
                       = schedRes.map[args.roleDisplayName].ID
                 /\ req'.RoleDefinitionID
                       = schedRes.map[args.roleDisplayName].Properties.RoleDefinitionID
        /\ pc = "create"
              => (pc' = "done" /\ ret'.returned /\ Len(calls') <= Len(calls) + 1)
        /\ pc # "done"

\* C6: in ActiveRoleAssignment the create request is sent at most once, and
\* only with the subscription resolved and a request built from a schedule
\* record that has its identifier and its role-definition identifier; a record
\* lacking one of them fails with the nil-value error without a request.
\* Nothing is retried: a listing that returned an error, and the create call,
\* end the operation with that error in the same step, and nothing follows
\* the return.
C6_CreateAtMostOnce ==
    [][C6_CreateStep]_vars /\ []C6_CreateDone

\* C6 witness: the one create request was sent and failed; its error is what
\* ActiveRoleAssignment returned.
C6_Witness ==
    /\ pc = "done"
    /\ op = "ActiveRoleAssignment"
    /\ Cardinality(CallsTo(Create)) = 1
    /\ ret.err = ErrNetwork

\* The whole minutes of a duration of d seconds, dropping the fraction: the
\* integer n of the sign of d with 60|n| <= |d| < 60(|n| + 1).
WholeMinutes(d) ==
    CHOOSE n \in -100..100 :
        \/ d >= 0 /\ n >= 0 /\ 60 * n <= d /\ d < 60 * (n + 1)
        \/ d < 0 /\ n <= 0 /\ 60 * n >= d /\ d > 60 * (n - 1)

\* The token of the built request, and the step that builds it.
C7_TokenOf ==
    /\ req.built =>
          /\ req.ExpirationDuration = "PT" \o ToString(WholeMinutes(args.duration)) \o "M"
          /\ args.duration = 5400 => req.ExpirationDuration = "PT90M"
          /\ args.duration = 90 => req.ExpirationDuration = "PT1M"
          /\ args.duration = 59 => req.ExpirationDuration = "PT0M"
          /\ args.duration = 0 => req.ExpirationDuration = "PT0M"
          /\ args.duration = -90 => req.ExpirationDuration = "PT-1M"
    /\ (pc = "done" /\ req.built /\ ret.err \notin {ErrUUID, ErrClient})
          => \E i \in CallsTo(Create) : calls[i].at = req.StartDateTime
C7_AnyDurationBuilds ==
    (pc = "sched_ret" /\ op = "ActiveRoleAssignment" /\ schedRes.err = NoErr
        /\ args.roleDisplayName \in DOMAIN schedRes.map
        /\ schedRes.map[args.roleDisplayName].ID # NIL
        /\ schedRes.map[args.roleDisplayName].Properties.RoleDefinitionID # NIL)
    => (pc' = "create" /\ req'.built /\ ~ret'.returned)

\* C7: the request carries the duration as "PT<n>M" with n the whole minutes,
\* truncated towards zero: PT90M for 90 minutes, PT1M for 1.5 minutes, PT0M
\* for 59 seconds and for none, PT-1M for minus 90 seconds.  No duration is
\* refused: a complete schedule record leads to the built request whatever the
\* duration, and from there only the request id or the client can fail before
\* the create request is sent.
C7_DurationTruncated ==
    [][C7_AnyDurationBuilds]_vars /\ []C7_TokenOf

\* C7 witness: a duration of minus 90 seconds went out as PT-1M in a create
\* request that succeeded.
C7_Witness ==
    /\ pc = "done"
    /\ args.duration = -90
    /\ req.built
    /\ req.ExpirationDuration = "PT-1M"
    /\ CallsTo(Create) # {}
    /\ ret.err = NoErr

\* The deadline of every request sent, and the clock against the deadline of
\* the drain or call in progress; the timeout of the session is 30 seconds.
C8_Deadlines ==
    /\ \A i \in 1..Len(calls) :
          /\ calls[i].ctx.id \in 1..nctx
          /\ calls[i].ctx.deadline = calls[i].ctx.start + 30
          /\ calls[i].ctx.start <= calls[i].at
          /\ calls[i].at < calls[i].ctx.deadline
    /\ \A i, j \in 1..Len(calls) :
          /\ calls[i].api = calls[j].api => calls[i].ctx = calls[j].ctx
          /\ calls[i].api # calls[j].api =>
                /\ calls[i].ctx.id # calls[j].ctx.id
                /\ i < j => calls[j].ctx.start >= calls[i].at
    /\ pc \in {"subs_drain", "sched_drain", "subs_ret", "sched_ret"} =>
          (nctx > 0 => (ctx.id = nctx /\ now <= ctx.start + 30))
    /\ ret.returned => now <= 30 * nctx

\* C8: every request is sent under a deadline of one timeout from the making
\* of its context, and before that deadline.  The page requests of one drain
\* share one context, made before the first of them; the two listings and
\* the create call have a context each; and the clock never passes the
\* deadline of the drain or call in progress, so a drain takes at most one
\* timeout.  Every operation called returns.
C8_BoundedByTimeout ==
    []C8_Deadlines /\ ((pc # "idle") ~> (pc = "done" /\ ret.returned))

\* C8 witness: the second page request of the subscriptions listing, sent 15
\* seconds into the drain under the deadline of the first, was cut off at
\* that deadline.
C8_Witness ==
    /\ pc = "subs_ret"
    /\ subsRes.err = ErrDeadline
    /\ Len(calls) = 2
    /\ calls[1].at = 0
    /\ calls[2].at = 15
    /\ calls[2].ctx.deadline = 30
    /\ now = 30

\* C9: a listing that fails after its drain began, by a failed page request or
\* a malformed entry, returns with the error a map that is not nil and holds
\* exactly what the entries read before the failure put there; what the
\* "subscriptions" command gets back is such a pair, a map that is not nil
\* beside the error.
C9_PartialWithError ==
    /\ (pc = "subs_ret" /\ subsRes.err \in {ErrNetwork, ErrDeadline, ErrNil})
          => (~subsRes.nilmap /\ subsRes.map = FirstWinsSubs(subsSeen))
    /\ (pc = "sched_ret" /\ schedRes.err \in {ErrNetwork, ErrDeadline, ErrNil})
          => (~schedRes.nilmap /\ schedRes.map = FirstWinsScheds(schedSeen))
    /\ (pc = "done" /\ op = "Subscriptions"
          /\ ret.err \in {ErrNetwork, ErrDeadline, ErrNil})
          => (~ret.subs.nilmap /\ ret.subs.err = ret.err)

\* C9 witness: the second page request failed after the first page had put
\* "Prod" in the map; the map comes back with the error.
C9_Witness ==
    /\ pc = "subs_ret"
    /\ subsRes.err = ErrNetwork
    /\ Cardinality(CallsTo(ListSubscriptions)) = 2
    /\ ~subsRes.nilmap
    /\ DOMAIN subsRes.map = {"Prod"}

\* The scope strings for a subscription identifier, with and without the
\* leading slash.
SlashScope(id) ==
    IF id = "sub-1" THEN "/subscriptions/sub-1" ELSE "/subscriptions/sub-2"
BareScope(id) ==
    IF id = "sub-1" THEN "subscriptions/sub-1" ELSE "subscriptions/sub-2"

\* C10: the schedules listing is requested at "/subscriptions/X" by
\* RolesForSubscription and at "subscriptions/X" by ActiveRoleAssignment, which
\* sends its create request at "/subscriptions/X": its read scope and its write
\* scope are different strings for the one subscription X.
C10_ScopeFormats ==
    \A i \in 1..Len(calls) :
        /\ (calls[i].api = ListForScope /\ op = "RolesForSubscription")
              => (subscriptionID \in SubIds /\ calls[i].scope = SlashScope(subscriptionID))
        /\ (calls[i].api = ListForScope /\ op = "ActiveRoleAssignment")
              => (subscriptionID \in SubIds /\ calls[i].scope = BareScope(subscriptionID))
        /\ calls[i].api = Create
              => /\ calls[i].scope = SlashScope(subscriptionID)
                 /\ \A j \in CallsTo(ListForScope) : calls[j].scope # calls[i].scope

\* C10 witness: ActiveRoleAssignment listed the schedules at
\* "subscriptions/sub-1" and sent the create request at "/subscriptions/sub-1".
C10_Witness ==
    /\ op = "ActiveRoleAssignment"
    /\ \E i, j \in 1..Len(calls) :
          /\ calls[i].api = ListForScope
          /\ calls[i].scope = "subscriptions/sub-1"
          /\ calls[j].api = Create
          /\ calls[j].scope = "/subscriptions/sub-1"
====
